---- MODULE Spec2Model ----
(***************************************************************************)
(* Model of two request builders of the elastic client library:            *)
(*   - SearchRequest (search_request.go, src/unnamed/part_000): a builder  *)
(*     whose header() projects the accumulated state to a key/value map;   *)
(*   - IndexService (src/index.go): a builder whose Do() expands a URL,    *)
(*     assembles query parameters and a body, sends one HTTP request and   *)
(*     decodes the response.                                               *)
(* Go strings that are only stored and compared are TLA+ strings.  Go      *)
(* strings that get escaped are sequences of one-character strings, so     *)
(* that escaping is computed character by character.                       *)
(***************************************************************************)
EXTENDS Integers, Sequences, FiniteSets, TLC

VARIABLES
    r,       \* the SearchRequest: its six fields
    calls,   \* history: the builder calls made on r, in call order
    b,       \* the IndexService: its builder fields
    called,  \* history: the names of the IndexService setters called so far
    out      \* what the last IndexService call returned (and, for Do, sent)

vars == <<r, calls, b, called, out>>

----------------------------------------------------------------------------
(* Bounds and input sets                                                   *)

\* most builder calls made on one SearchRequest
MaxCalls == 3

\* most distinct IndexService setters called on one IndexService
MaxSetters == 2

\* search types handed to SearchType (the empty string resets it)
SearchTypes == {"", "scan"}

\* index / type names handed to the SearchRequest
Names == {"a", "b"}

\* argument lists handed to the variadic Indices / Types
NameLists == {<<>>, <<"a">>, <<"a", "b">>, <<"b", "b">>}

\* routing / preference strings (the empty string included)
RouteVals == {"", "a"}

\* non-nil argument slices handed to the variadic Routings; the empty one is
\* what Routings(s...) passes for an empty, non-nil s
RouteLists == {<<>>, <<"a">>, <<"a", "b">>, <<"", "b">>}

----------------------------------------------------------------------------
(* Go values                                                               *)

\* a nil *string
NilPtr == [present |-> FALSE, val |-> ""]

\* &s
Ptr(s) == [present |-> TRUE, val |-> s]

\* the map with no key
EmptyMap == [k \in {} |-> ""]

\* m with m[k] = v set (Go: m[k] = v)
MapSet(m, k, v) == (k :> v) @@ m

----------------------------------------------------------------------------
(* SearchRequest                                                           *)

NewSearchRequest ==
    [searchType |-> "", indices |-> <<>>, types |-> <<>>,
     routing |-> NilPtr, preference |-> NilPtr, source |-> "nil"]

\* one entry of the call history
Call(op, args, isNil) == [op |-> op, args |-> args, isNil |-> isNil]

CanCall == Len(calls) < MaxCalls

SearchIdle == UNCHANGED <<b, called, out>>

SetSearchType(searchType) ==
    [r EXCEPT !.searchType = searchType]

SearchType(searchType) ==
    /\ CanCall
    /\ r' = SetSearchType(searchType)
    /\ calls' = Append(calls, Call("SearchType", <<searchType>>, FALSE))
    /\ SearchIdle

SearchTypeDfsQueryThenFetch ==
    /\ CanCall
    /\ r' = SetSearchType("dfs_query_then_fetch")
    /\ calls' = Append(calls, Call("SearchTypeDfsQueryThenFetch", <<>>, FALSE))
    /\ SearchIdle

SearchTypeDfsQueryAndFetch ==
    /\ CanCall
    /\ r' = SetSearchType("dfs_query_and_fetch")
    /\ calls' = Append(calls, Call("SearchTypeDfsQueryAndFetch", <<>>, FALSE))
    /\ SearchIdle

SearchTypeQueryThenFetch ==
    /\ CanCall
    /\ r' = SetSearchType("query_then_fetch")
    /\ calls' = Append(calls, Call("SearchTypeQueryThenFetch", <<>>, FALSE))
    /\ SearchIdle

SearchTypeQueryAndFetch ==
    /\ CanCall
    /\ r' = SetSearchType("query_and_fetch")
    /\ calls' = Append(calls, Call("SearchTypeQueryAndFetch", <<>>, FALSE))
    /\ SearchIdle

SearchTypeScan ==
    /\ CanCall
    /\ r' = SetSearchType("scan")
    /\ calls' = Append(calls, Call("SearchTypeScan", <<>>, FALSE))
    /\ SearchIdle

SearchTypeCount ==
    /\ CanCall
    /\ r' = SetSearchType("count")
    /\ calls' = Append(calls, Call("SearchTypeCount", <<>>, FALSE))
    /\ SearchIdle

\* a bug: the index replaces the ones added before
AppendIndex_Replacing(index) == [r EXCEPT !.indices = <<index>>]

\* r.indices = append(r.indices, index)
AppendIndex(index) == [r EXCEPT !.indices = Append(@, index)]

Index(index) ==
    /\ CanCall
    /\ r' = AppendIndex(index)
    /\ calls' = Append(calls, Call("Index", <<index>>, FALSE))
    /\ SearchIdle

\* r.indices = append(r.indices, indices...)
AppendIndices(indices) == [r EXCEPT !.indices = @ \o indices]

Indices(indices) ==
    /\ CanCall
    /\ r' = AppendIndices(indices)
    /\ calls' = Append(calls, Call("Indices", indices, FALSE))
    /\ SearchIdle

HasIndices == Len(r.indices) > 0

\* r.types = append(r.types, typ)
AppendType(typ) == [r EXCEPT !.types = Append(@, typ)]

Type(typ) ==
    /\ CanCall
    /\ r' = AppendType(typ)
    /\ calls' = Append(calls, Call("Type", <<typ>>, FALSE))
    /\ SearchIdle

\* r.types = append(r.types, types...)
AppendTypes(types) == [r EXCEPT !.types = @ \o types]

Types(types) ==
    /\ CanCall
    /\ r' = AppendTypes(types)
    /\ calls' = Append(calls, Call("Types", types, FALSE))
    /\ SearchIdle

\* r.routing = &routing
SetRouting(routing) == [r EXCEPT !.routing = Ptr(routing)]

Routing(routing) ==
    /\ CanCall
    /\ r' = SetRouting(routing)
    /\ calls' = Append(calls, Call("Routing", <<routing>>, FALSE))
    /\ SearchIdle

\* strings.Join(elems, sep)
RECURSIVE Join(_, _)
Join(elems, sep) ==
    IF Len(elems) = 0 THEN ""
    ELSE IF Len(elems) = 1 THEN elems[1]
    ELSE elems[1] \o sep \o Join(Tail(elems), sep)

\* a bug: no argument leaves the empty string rather than no routing
SetRoutings_EmptyString(routings, isNil) ==
    [r EXCEPT !.routing = Ptr(Join(routings, ","))]

\* the body of Routings; isNil: the variadic slice is nil (a call with no
\* argument at all)
SetRoutings(routings, isNil) ==
    IF ~isNil
    THEN [r EXCEPT !.routing = Ptr(Join(routings, ","))]
    ELSE [r EXCEPT !.routing = NilPtr]

Routings(routings, isNil) ==
    /\ CanCall
    /\ r' = SetRoutings(routings, isNil)
    /\ calls' = Append(calls, Call("Routings", routings, isNil))
    /\ SearchIdle

\* r.preference = &preference
SetPreference(preference) == [r EXCEPT !.preference = Ptr(preference)]

Preference(preference) ==
    /\ CanCall
    /\ r' = SetPreference(preference)
    /\ calls' = Append(calls, Call("Preference", <<preference>>, FALSE))
    /\ SearchIdle

\* what a *SearchSource renders itself to (v.Source())
RenderSearchSource(v) == "rendered:" \o v

\* the type switch of Source: a *SearchSource is stored rendered, anything
\* else verbatim
SetSource(isSearchSource, v) ==
    [r EXCEPT !.source = IF isSearchSource THEN RenderSearchSource(v) ELSE v]

Source(isSearchSource, v) ==
    /\ CanCall
    /\ r' = SetSource(isSearchSource, v)
    /\ calls' = Append(calls, Call("Source", <<v>>, FALSE))
    /\ SearchIdle

\* header, search type: if r.searchType != "" { h["search_type"] = ... }
HeaderSearchType(h) ==
    IF r.searchType # "" THEN MapSet(h, "search_type", r.searchType) ELSE h

\* header, the switch on len(r.indices)
HeaderIndices(h) ==
    IF Len(r.indices) = 0 THEN h
    ELSE IF Len(r.indices) = 1 THEN MapSet(h, "index", r.indices[1])
    ELSE MapSet(h, "indices", r.indices)

\* a bug: the keys named as for the indices, `type` for one, `types` for many
HeaderTypes_LikeIndices(h) ==
    IF Len(r.types) = 0 THEN h
    ELSE IF Len(r.types) = 1 THEN MapSet(h, "type", r.types[1])
    ELSE MapSet(h, "types", r.types)

\* header, the switch on len(r.types)
HeaderTypes(h) ==
    IF Len(r.types) = 0 THEN h
    ELSE IF Len(r.types) = 1 THEN MapSet(h, "types", r.types[1])
    ELSE MapSet(h, "type", r.types)

\* a bug: the routing emitted whenever it is set, the empty string too
HeaderRouting_WheneverSet(h) ==
    IF r.routing.present THEN MapSet(h, "routing", r.routing.val) ELSE h

\* header, routing: if r.routing != nil && *r.routing != ""
HeaderRouting(h) ==
    IF r.routing.present /\ r.routing.val # ""
    THEN MapSet(h, "routing", r.routing.val) ELSE h

\* header, preference: if r.preference != nil && *r.preference != ""
HeaderPreference(h) ==
    IF r.preference.present /\ r.preference.val # ""
    THEN MapSet(h, "preference", r.preference.val) ELSE h

\* header(): the map built from the current fields
header ==
    HeaderPreference(HeaderRouting(HeaderTypes(HeaderIndices(
        HeaderSearchType(EmptyMap)))))

\* body()
body == r.source

SearchNext ==
    \/ \E s \in SearchTypes : SearchType(s)
    \/ SearchTypeDfsQueryThenFetch
    \/ SearchTypeDfsQueryAndFetch
    \/ SearchTypeQueryThenFetch
    \/ SearchTypeQueryAndFetch
    \/ SearchTypeScan
    \/ SearchTypeCount
    \/ \E n \in Names : Index(n)
    \/ \E ns \in NameLists : Indices(ns)
    \/ \E n \in Names : Type(n)
    \/ \E ns \in NameLists : Types(ns)
    \/ \E s \in RouteVals : Routing(s)
    \/ Routings(<<>>, TRUE)
    \/ \E ss \in RouteLists : Routings(ss, FALSE)
    \/ \E s \in RouteVals : Preference(s)
    \/ \E isSS \in BOOLEAN : Source(isSS, "q")

----------------------------------------------------------------------------
(* IndexService: values                                                    *)

\* Go strings handed to the string setters, as sequences of characters
Texts == {<<>>, <<"a", " ", "/">>}

\* document ids handed to Id
IdTexts == {<<>>, <<"4", "2">>, <<"a", " ", "/">>}

\* version numbers handed to Version
Versions == {0, -7, 42}

\* raw bodies handed to BodyString
RawBodies == {"", "Hi"}

\* a nil interface{}
JsonNil == [t |-> "nil", k |-> "", v |-> ""]

\* the Go string v as an interface{}
JsonStr(v) == [t |-> "str", k |-> "", v |-> v]

\* map[string]string{k: v} as an interface{}
JsonObj(k, v) == [t |-> "obj", k |-> k, v |-> v]

\* values handed to BodyJson
JsonBodies == {JsonNil, JsonStr("Hi"), JsonObj("title", "Hi")}

\* a nil *bool / *int64
NilRef == [present |-> FALSE, val |-> 0]

\* &v
Ref(v) == [present |-> TRUE, val |-> v]

NewIndexService ==
    [index |-> <<>>, typ |-> <<>>, id |-> <<>>, routing |-> <<>>,
     parent |-> <<>>, opType |-> <<>>, refresh |-> NilRef,
     version |-> NilRef, versionType |-> <<>>, timestamp |-> <<>>,
     ttl |-> <<>>, timeout |-> <<>>, bodyString |-> "",
     bodyJson |-> JsonNil, pretty |-> FALSE, debug |-> FALSE]

\* *IndexResult: nil, or the decoded struct
NoResult ==
    [present |-> FALSE, Index |-> "", Type |-> "", Id |-> "",
     Version |-> 0, Created |-> FALSE]

\* the request handed to the HTTP client (not built: built = FALSE)
NoRequest == [built |-> FALSE, method |-> "", url |-> "", body |-> ""]

\* what a setter returns: the builder itself
BuilderReturned ==
    [kind |-> "builder", ret |-> NoResult, err |-> "", path |-> "",
     params |-> EmptyMap, req |-> NoRequest, sent |-> FALSE, status |-> 0,
     decoded |-> FALSE]

----------------------------------------------------------------------------
(* IndexService: setters                                                   *)

CanSet(op) == op \in called \/ Cardinality(called) < MaxSetters

\* every setter: one field assigned, the builder returned
Set(op, nb) ==
    /\ CanSet(op)
    /\ b' = nb
    /\ called' = called \cup {op}
    /\ out' = BuilderReturned
    /\ UNCHANGED <<r, calls>>

IndexService_Index(name) == Set("Index", [b EXCEPT !.index = name])

IndexService_Type(typ) == Set("Type", [b EXCEPT !.typ = typ])

IndexService_Id(id) == Set("Id", [b EXCEPT !.id = id])

IndexService_Routing(routing) == Set("Routing", [b EXCEPT !.routing = routing])

IndexService_Parent(parent) == Set("Parent", [b EXCEPT !.parent = parent])

IndexService_OpType(opType) == Set("OpType", [b EXCEPT !.opType = opType])

\* b.refresh = &refresh
SetRefresh(refresh) == [b EXCEPT !.refresh = Ref(refresh)]

IndexService_Refresh(refresh) == Set("Refresh", SetRefresh(refresh))

\* b.version = &version
SetVersion(version) == [b EXCEPT !.version = Ref(version)]

IndexService_Version(version) == Set("Version", SetVersion(version))

IndexService_VersionType(versionType) ==
    Set("VersionType", [b EXCEPT !.versionType = versionType])

IndexService_Timestamp(timestamp) ==
    Set("Timestamp", [b EXCEPT !.timestamp = timestamp])

IndexService_TTL(ttl) == Set("TTL", [b EXCEPT !.ttl = ttl])

IndexService_Timeout(timeout) == Set("Timeout", [b EXCEPT !.timeout = timeout])

IndexService_BodyString(bodyString) ==
    Set("BodyString", [b EXCEPT !.bodyString = bodyString])

IndexService_BodyJson(json) == Set("BodyJson", [b EXCEPT !.bodyJson = json])

IndexService_Pretty(pretty) == Set("Pretty", [b EXCEPT !.pretty = pretty])

IndexService_Debug(debug) == Set("Debug", [b EXCEPT !.debug = debug])

----------------------------------------------------------------------------
(* IndexService: escaping and formatting                                   *)

\* the characters of the model's inputs that no escaping changes
Unreserved ==
    {"0", "1", "2", "3", "4", "5", "6", "7", "8", "9",
     "a", "e", "r", "t", "u", "-", ".", "_", "~"}

\* %XX of a character that is escaped
PercentEncoded(c) == CASE c = " " -> "%20" [] c = "/" -> "%2F"

\* the escaping of one value of a {var} of a URI template
RECURSIVE PathEscape(_)
PathEscape(cs) ==
    IF cs = <<>> THEN ""
    ELSE (IF Head(cs) \in Unreserved THEN Head(cs) ELSE PercentEncoded(Head(cs)))
         \o PathEscape(Tail(cs))

\* url.QueryEscape: as above, but a space becomes "+"
RECURSIVE QueryEscape(_)
QueryEscape(cs) ==
    IF cs = <<>> THEN ""
    ELSE (IF Head(cs) \in Unreserved THEN Head(cs)
          ELSE IF Head(cs) = " " THEN "+"
          ELSE PercentEncoded(Head(cs)))
         \o QueryEscape(Tail(cs))

DigitChar(d) ==
    CASE d = 0 -> "0" [] d = 1 -> "1" [] d = 2 -> "2" [] d = 3 -> "3"
      [] d = 4 -> "4" [] d = 5 -> "5" [] d = 6 -> "6" [] d = 7 -> "7"
      [] d = 8 -> "8" [] d = 9 -> "9"

RECURSIVE DecNat(_)
DecNat(n) ==
    IF n < 10 THEN <<DigitChar(n)>>
    ELSE DecNat(n \div 10) \o <<DigitChar(n % 10)>>

\* fmt.Sprintf("%d", n)
Sprintf_d(n) == IF n < 0 THEN <<"-">> \o DecNat(-n) ELSE DecNat(n)

\* the Go string "true"
TrueText == <<"t", "r", "u", "e">>

Quote(s) == "\"" \o s \o "\""

\* the JSON text of a body value (req.SetBodyJson)
ToJson(j) ==
    CASE j.t = "nil" -> "null"
      [] j.t = "str" -> Quote(j.v)
      [] j.t = "obj" -> "{" \o Quote(j.k) \o ":" \o Quote(j.v) \o "}"

----------------------------------------------------------------------------
(* IndexService: Do                                                        *)

Lit(text) == [var |-> FALSE, name |-> text]

Var(name) == [var |-> TRUE, name |-> name]

\* a bug: the test of the id inverted
MethodAndTemplate_Inverted(s) ==
    IF s.id = <<>>
    THEN [method |-> "PUT",
          template |-> <<Lit("/"), Var("index"), Lit("/"), Var("type"),
                         Lit("/"), Var("id")>>]
    ELSE [method |-> "POST",
          template |-> <<Lit("/"), Var("index"), Lit("/"), Var("type"),
                         Lit("/")>>]

\* the method and the URI template Do chooses
MethodAndTemplate(s) ==
    IF s.id # <<>>
    THEN [method |-> "PUT",
          template |-> <<Lit("/"), Var("index"), Lit("/"), Var("type"),
                         Lit("/"), Var("id")>>]
    ELSE [method |-> "POST",
          template |-> <<Lit("/"), Var("index"), Lit("/"), Var("type"),
                         Lit("/")>>]

\* the map handed to uritemplates.Expand
Expansions(s) ==
    MapSet(MapSet(MapSet(EmptyMap, "index", s.index), "type", s.typ),
           "id", s.id)

\* uritemplates.Expand: every {var} replaced by its escaped value
RECURSIVE Expand(_, _)
Expand(template, expansions) ==
    IF template = <<>> THEN ""
    ELSE (IF Head(template).var
          THEN PathEscape(expansions[Head(template).name])
          ELSE Head(template).name)
         \o Expand(Tail(template), expansions)

\* if s is non-empty, params.Set(key, s)
SetIfNonEmpty(p, key, s) == IF s # <<>> THEN MapSet(p, key, s) ELSE p

\* a bug: refresh sent whenever Refresh was called
ParamRefresh_WheneverSet(s, p) ==
    IF s.refresh.present THEN MapSet(p, "refresh", TrueText) ELSE p

\* if b.refresh != nil && *b.refresh { params.Set("refresh", "true") }
ParamRefresh(s, p) ==
    IF s.refresh.present /\ s.refresh.val
    THEN MapSet(p, "refresh", TrueText) ELSE p

\* a bug: the version 0 taken for no version
ParamVersion_ZeroUnset(s, p) ==
    IF s.version.present /\ s.version.val # 0
    THEN MapSet(p, "version", Sprintf_d(s.version.val)) ELSE p

\* if b.version != nil { params.Set("version", fmt.Sprintf("%d", ...)) }
ParamVersion(s, p) ==
    IF s.version.present
    THEN MapSet(p, "version", Sprintf_d(s.version.val)) ELSE p

\* params: the url.Values Do fills
Params(s) ==
    LET p0 == EmptyMap
        p1 == IF s.pretty THEN MapSet(p0, "pretty", TrueText) ELSE p0
        p2 == SetIfNonEmpty(p1, "routing", s.routing)
        p3 == SetIfNonEmpty(p2, "parent", s.parent)
        p4 == SetIfNonEmpty(p3, "op_type", s.opType)
        p5 == ParamRefresh(s, p4)
        p6 == ParamVersion(s, p5)
        p7 == SetIfNonEmpty(p6, "version_type", s.versionType)
        p8 == SetIfNonEmpty(p7, "timestamp", s.timestamp)
        p9 == SetIfNonEmpty(p8, "ttl", s.ttl)
        p10 == SetIfNonEmpty(p9, "timeout", s.timeout)
    IN  p10

\* the keys Do can set, in the byte order url.Values.Encode sorts them into
SortedKeys ==
    <<"op_type", "parent", "pretty", "refresh", "routing", "timeout",
      "timestamp", "ttl", "version", "version_type">>

RECURSIVE EncodeKeys(_, _)
EncodeKeys(v, keys) ==
    IF keys = <<>> THEN ""
    ELSE LET rest == EncodeKeys(v, Tail(keys))
         IN  IF Head(keys) \notin DOMAIN v THEN rest
             ELSE Head(keys) \o "=" \o QueryEscape(v[Head(keys)])
                  \o (IF rest = "" THEN "" ELSE "&" \o rest)

\* url.Values.Encode: key=value pairs, sorted by key, joined by "&"
Encode(v) == EncodeKeys(v, SortedKeys)

\* a bug: the "?" appended whether or not there is a parameter
WithQuery_Always(urls, params) == urls \o "?" \o Encode(params)

\* if len(params) > 0 { urls += "?" + params.Encode() }
WithQuery(urls, params) ==
    IF Cardinality(DOMAIN params) > 0
    THEN urls \o "?" \o Encode(params)
    ELSE urls

\* a bug: the raw string preferred when there is one
RequestBody_RawFirst(s) ==
    IF s.bodyString # "" THEN s.bodyString ELSE ToJson(s.bodyJson)

\* the body Do sets on the request
RequestBody(s) ==
    IF s.bodyJson # JsonNil THEN ToJson(s.bodyJson) ELSE s.bodyString

\* checkResponse: an error for a status outside 200..299
CheckResponse(status) ==
    IF 200 <= status /\ status <= 299 THEN "" ELSE "HTTPStatusError"

\* JSON values of a response body
RStr(v) == [t |-> "str", s |-> v, n |-> 0, bl |-> FALSE]

RNum(v) == [t |-> "num", s |-> "", n |-> v, bl |-> FALSE]

RBool(v) == [t |-> "bool", s |-> "", n |-> 0, bl |-> v]

\* the JSON tags of IndexResult with the JSON type each Go field takes
ResultFields ==
    MapSet(MapSet(MapSet(MapSet(MapSet(EmptyMap,
        "_index", "str"), "_type", "str"), "_id", "str"),
        "_version", "num"), "created", "bool")

\* json.NewDecoder(res.Body).Decode(ret) fails: the body is no JSON, or a
\* member has the wrong JSON type for its field
DecodeFails(resBody) ==
    \/ ~resBody.valid
    \/ \E k \in DOMAIN resBody.obj \cap DOMAIN ResultFields :
          resBody.obj[k].t # ResultFields[k]

\* the IndexResult a successful Decode fills: a member that is missing
\* leaves its field zero
Decode(resBody) ==
    LET obj == resBody.obj
        Has(k) == k \in DOMAIN obj
    IN  [present |-> TRUE,
         Index   |-> IF Has("_index") THEN obj["_index"].s ELSE "",
         Type    |-> IF Has("_type") THEN obj["_type"].s ELSE "",
         Id      |-> IF Has("_id") THEN obj["_id"].s ELSE "",
         Version |-> IF Has("_version") THEN obj["_version"].n ELSE 0,
         Created |-> IF Has("created") THEN obj["created"].bl ELSE FALSE]

\* the response body {"_index":"blog","_type":"post","_id":"1",
\* "_version":1,"created":true}
CreatedDoc ==
    MapSet(MapSet(MapSet(MapSet(MapSet(EmptyMap,
        "_index", RStr("blog")), "_type", RStr("post")), "_id", RStr("1")),
        "_version", RNum(1)), "created", RBool(TRUE))

\* response bodies: no JSON at all, the document above, {} and
\* {"_version":"x"}
ResBodies ==
    {[valid |-> FALSE, obj |-> EmptyMap],
     [valid |-> TRUE, obj |-> CreatedDoc],
     [valid |-> TRUE, obj |-> EmptyMap],
     [valid |-> TRUE, obj |-> MapSet(EmptyMap, "_version", RStr("x"))]}

Statuses == {200, 201, 404}

\* what the collaborators of one Do call do: whether Expand, NewRequest or
\* the transport fail and, if none does, the response
Env(expandErr, newRequestErr, transportErr, status, resBody) ==
    [expandErr |-> expandErr, newRequestErr |-> newRequestErr,
     transportErr |-> transportErr, status |-> status, resBody |-> resBody]

NoBody == [valid |-> FALSE, obj |-> EmptyMap]

Envs ==
    {Env(TRUE, FALSE, FALSE, 0, NoBody), Env(FALSE, TRUE, FALSE, 0, NoBody),
     Env(FALSE, FALSE, TRUE, 0, NoBody)}
    \cup {Env(FALSE, FALSE, FALSE, st, rb) : st \in Statuses, rb \in ResBodies}

\* a bug: the status of the response not checked before decoding
Respond_StatusUnchecked(env) ==
    IF env.transportErr
    THEN [ret |-> NoResult, err |-> "TransportError", status |-> 0,
          decoded |-> FALSE]
    ELSE IF DecodeFails(env.resBody)
    THEN [ret |-> NoResult, err |-> "DecodeError", status |-> env.status,
          decoded |-> TRUE]
    ELSE [ret |-> Decode(env.resBody), err |-> "", status |-> env.status,
          decoded |-> TRUE]

\* the end of Do, from sending the request on: what Do returns
Respond(env) ==
    IF env.transportErr
    THEN [ret |-> NoResult, err |-> "TransportError", status |-> 0,
          decoded |-> FALSE]
    ELSE IF CheckResponse(env.status) # ""
    THEN [ret |-> NoResult, err |-> CheckResponse(env.status),
          status |-> env.status, decoded |-> FALSE]
    ELSE IF DecodeFails(env.resBody)
    THEN [ret |-> NoResult, err |-> "DecodeError", status |-> env.status,
          decoded |-> TRUE]
    ELSE [ret |-> Decode(env.resBody), err |-> "", status |-> env.status,
          decoded |-> TRUE]

\* Do on the builder s: the request it builds and what it returns.  The
\* debug dumps of the request and the response change nothing.
DoResult(s, env) ==
    LET mt == MethodAndTemplate(s)
        urls == Expand(mt.template, Expansions(s))
        params == Params(s)
        req == [built |-> TRUE, method |-> mt.method,
                url |-> WithQuery(urls, params), body |-> RequestBody(s)]
        res == Respond(env)
    IN  IF env.expandErr
        THEN [BuilderReturned EXCEPT !.kind = "do",
                                     !.err = "PathExpansionError"]
        ELSE IF env.newRequestErr
        THEN [BuilderReturned EXCEPT !.kind = "do", !.err = "NewRequestError",
                                     !.path = urls, !.params = params]
        ELSE [kind |-> "do", ret |-> res.ret, err |-> res.err, path |-> urls,
              params |-> params, req |-> req, sent |-> TRUE,
              status |-> res.status, decoded |-> res.decoded]

Do(env) ==
    /\ out' = DoResult(b, env)
    /\ UNCHANGED <<b, called, r, calls>>

IndexNext ==
    \/ \E name \in Texts : IndexService_Index(name)
    \/ \E typ \in Texts : IndexService_Type(typ)
    \/ \E id \in IdTexts : IndexService_Id(id)
    \/ \E routing \in Texts : IndexService_Routing(routing)
    \/ \E parent \in Texts : IndexService_Parent(parent)
    \/ \E opType \in Texts : IndexService_OpType(opType)
    \/ \E refresh \in BOOLEAN : IndexService_Refresh(refresh)
    \/ \E version \in Versions : IndexService_Version(version)
    \/ \E versionType \in Texts : IndexService_VersionType(versionType)
    \/ \E timestamp \in Texts : IndexService_Timestamp(timestamp)
    \/ \E ttl \in Texts : IndexService_TTL(ttl)
    \/ \E timeout \in Texts : IndexService_Timeout(timeout)
    \/ \E bodyString \in RawBodies : IndexService_BodyString(bodyString)
    \/ \E json \in JsonBodies : IndexService_BodyJson(json)
    \/ \E pretty \in BOOLEAN : IndexService_Pretty(pretty)
    \/ \E debug \in BOOLEAN : IndexService_Debug(debug)
    \/ \E env \in Envs : Do(env)

----------------------------------------------------------------------------
(* Specifications                                                          *)

Init ==
    /\ r = NewSearchRequest
    /\ calls = <<>>
    /\ b = NewIndexService
    /\ called = {}
    /\ out = BuilderReturned

\* a SearchRequest being built
SearchSpec == Init /\ [][SearchNext]_vars

\* an IndexService being built and executed
IndexSpec == Init /\ [][IndexNext]_vars

----------------------------------------------------------------------------
(* Properties of SearchRequest                                             *)

\* the concatenation, in call order, of the names passed by the calls whose
\* operation is in ops
RECURSIVE Added(_, _)
Added(cs, ops) ==
    IF cs = <<>> THEN <<>>
    ELSE (IF Head(cs).op \in ops THEN Head(cs).args ELSE <<>>)
         \o Added(Tail(cs), ops)

\* v1,v2,...,vn written with a comma between neighbours (n >= 1)
RECURSIVE CommaSeparated(_)
CommaSeparated(vs) ==
    IF Len(vs) = 1 THEN vs[1]
    ELSE CommaSeparated(SubSeq(vs, 1, Len(vs) - 1)) \o "," \o vs[Len(vs)]

\* the positions in the history of the calls whose operation is in ops
CallsOf(ops) == {i \in 1..Len(calls) : calls[i].op \in ops}

SetMax(S) == CHOOSE x \in S : \A y \in S : y <= x

\* C1: with L the names added by Index/Indices in call order, the header has
\* `index` = L[1] and no `indices` when len(L) = 1, `indices` = L and no
\* `index` when len(L) >= 2, and neither key when len(L) = 0.
C1_IndexKeys ==
    LET L == Added(calls, {"Index", "Indices"})
        h == header
    IN  /\ Len(L) = 0 => "index" \notin DOMAIN h /\ "indices" \notin DOMAIN h
        /\ Len(L) = 1 => /\ "indices" \notin DOMAIN h
                         /\ "index" \in DOMAIN h
                         /\ h["index"] = L[1]
        /\ Len(L) >= 2 => /\ "index" \notin DOMAIN h
                          /\ "indices" \in DOMAIN h
                          /\ h["indices"] = L

\* an Index call followed by an Indices call has left three names, two of
\* them equal, under `indices`
C1_Witness ==
    /\ \E i, j \in 1..Len(calls) :
          i < j /\ calls[i].op = "Index" /\ calls[j].op = "Indices"
    /\ Added(calls, {"Index", "Indices"}) = <<"b", "b", "b">>
    /\ "indices" \in DOMAIN header
    /\ header["indices"] = <<"b", "b", "b">>

\* C2: with T the names added by Type/Types in call order, the header has
\* `types` = T[1] (a scalar) and no `type` when len(T) = 1, `type` = T (the
\* sequence) and no `types` when len(T) >= 2, and neither key when len(T) = 0.
C2_TypeKeys ==
    LET T == Added(calls, {"Type", "Types"})
        h == header
    IN  /\ Len(T) = 0 => "type" \notin DOMAIN h /\ "types" \notin DOMAIN h
        /\ Len(T) = 1 => /\ "type" \notin DOMAIN h
                         /\ "types" \in DOMAIN h
                         /\ h["types"] = T[1]
        /\ Len(T) >= 2 => /\ "types" \notin DOMAIN h
                          /\ "type" \in DOMAIN h
                          /\ h["type"] = T

\* a Types call followed by a Type call has left the sequence a, b, a under
\* the key `type`
C2_Witness ==
    /\ \E i, j \in 1..Len(calls) :
          i < j /\ calls[i].op = "Types" /\ calls[j].op = "Type"
    /\ "type" \in DOMAIN header
    /\ header["type"] = <<"a", "b", "a">>

C8_WitnessJoined ==
    /\ CallsOf({"Routing", "Routings"}) # {}
    /\ calls[SetMax(CallsOf({"Routing", "Routings"}))]
          = Call("Routings", <<"a", "b">>, FALSE)
    /\ r.routing = Ptr("a,b")

\* C9: the header has `search_type` iff the search type is non-empty,
\* `routing` iff the routing is present and non-empty, `preference` iff the
\* preference is present and non-empty; a key that is there holds the stored
\* field, so no key ever holds the empty string.
C9_OptionalKeys ==
    LET h == header
    IN  /\ "search_type" \in DOMAIN h <=> r.searchType # ""
        /\ "search_type" \in DOMAIN h => h["search_type"] = r.searchType
        /\ "routing" \in DOMAIN h <=>
              (r.routing.present /\ r.routing.val # "")
        /\ "routing" \in DOMAIN h => h["routing"] = r.routing.val
        /\ "preference" \in DOMAIN h <=>
              (r.preference.present /\ r.preference.val # "")
        /\ "preference" \in DOMAIN h => h["preference"] = r.preference.val
        /\ \A k \in DOMAIN h \cap {"search_type", "routing", "preference"} :
              h[k] # ""

\* the routing was set to the empty string, the preference to "a" and the
\* search type by SearchTypeScan: the header has the last two keys only
C9_Witness ==
    /\ r.routing = Ptr("")
    /\ r.preference = Ptr("a")
    /\ r.searchType = "scan"
    /\ DOMAIN header = {"search_type", "preference"}

----------------------------------------------------------------------------
(* Properties of IndexService                                              *)

\* Do returned and had built its request
Built == out.kind = "do" /\ out.req.built

\* the escaped text of each string of the model, in a URL path
PathText(cs) ==
    CASE cs = <<>> -> ""
      [] cs = <<"4", "2">> -> "42"
      [] cs = <<"a", " ", "/">> -> "a%20%2F"

\* the decimal digits of each version number of the model
DecimalText(v) ==
    CASE v = 0 -> <<"0">>
      [] v = -7 -> <<"-", "7">>
      [] v = 42 -> <<"4", "2">>

\* the JSON serialization of each body value of the model
JsonText(j) ==
    CASE j = JsonStr("Hi") -> "\"Hi\""
      [] j = JsonObj("title", "Hi") -> "{\"title\":\"Hi\"}"

\* the nine query parameters the specification lists
NineKeys ==
    {"routing", "parent", "op_type", "refresh", "version", "version_type",
     "timestamp", "ttl", "timeout"}

\* whether the builder has the parameter k present / non-default
ParamPresent(k) ==
    CASE k = "routing" -> b.routing # <<>>
      [] k = "parent" -> b.parent # <<>>
      [] k = "op_type" -> b.opType # <<>>
      [] k = "refresh" -> b.refresh.present /\ b.refresh.val
      [] k = "version" -> b.version.present
      [] k = "version_type" -> b.versionType # <<>>
      [] k = "timestamp" -> b.timestamp # <<>>
      [] k = "ttl" -> b.ttl # <<>>
      [] k = "timeout" -> b.timeout # <<>>
      [] k = "pretty" -> b.pretty

\* the value the builder holds for the parameter k
ParamValue(k) ==
    CASE k = "routing" -> b.routing
      [] k = "parent" -> b.parent
      [] k = "op_type" -> b.opType
      [] k = "refresh" -> TrueText
      [] k = "version" -> DecimalText(b.version.val)
      [] k = "version_type" -> b.versionType
      [] k = "timestamp" -> b.timestamp
      [] k = "ttl" -> b.ttl
      [] k = "timeout" -> b.timeout
      [] k = "pretty" -> TrueText

\* the query part of a URL that carries exactly the present parameters
\* among keys: nothing at all when none is present
QueryOf(keys) ==
    LET present == {k \in keys : ParamPresent(k)}
    IN  IF present = {} THEN ""
        ELSE "?" \o Encode([k \in present |-> ParamValue(k)])

\* C3: the request Do builds is a PUT of /{index}/{type}/{id} when the id is
\* non-empty (path ending in /42 for the id "42") and a POST of
\* /{index}/{type}/ when it is empty; nothing but index, type and id enters
\* the method or the path.
C3_MethodAndPath ==
    Built =>
        LET dir == "/" \o PathText(b.index) \o "/" \o PathText(b.typ) \o "/"
        IN  /\ b.id = <<>> => out.req.method = "POST" /\ out.path = dir
            /\ b.id # <<>> =>
                  out.req.method = "PUT" /\ out.path = dir \o PathText(b.id)
            /\ b.id = <<"4", "2">> => out.path = dir \o "42"
            /\ \/ out.req.url = out.path
               \/ out.req.url = out.path \o "?" \o Encode(out.params)

\* Do ran with the id "42" and an index set: a PUT whose path ends in /42
C3_Witness ==
    /\ Built
    /\ b.id = <<"4", "2">>
    /\ b.index = <<"a", " ", "/">>
    /\ out.req.method = "PUT"
    /\ out.path = "/a%20%2F//42"

\* Do ran without an id: a POST whose path ends in /
C3_WitnessPost ==
    /\ Built
    /\ b.id = <<>>
    /\ b.typ = <<"a", " ", "/">>
    /\ out.req.method = "POST"
    /\ out.req.url = "//a%20%2F/"

\* C4: Do returns either a result and no error or an error and no result;
\* on a response with a status outside 2xx it returns an error, no result,
\* and has not decoded the body; a result it returns was decoded from a 2xx
\* response.
C4_ResultOrError ==
    out.kind = "do" =>
        /\ \/ out.ret.present /\ out.err = ""
           \/ ~out.ret.present /\ out.err # ""
        /\ (out.status # 0 /\ ~(200 <= out.status /\ out.status <= 299)) =>
              out.err # "" /\ ~out.ret.present /\ ~out.decoded
        /\ out.ret.present =>
              out.decoded /\ 200 <= out.status /\ out.status <= 299

\* Do got a 404 response: an error, no result, nothing decoded
C4_Witness ==
    /\ out.kind = "do"
    /\ out.sent
    /\ out.status = 404
    /\ out.err = "HTTPStatusError"
    /\ ~out.ret.present
    /\ ~out.decoded

\* Do got a 201 response with the document: the decoded result, no error
C4_WitnessResult ==
    /\ out.kind = "do"
    /\ out.status = 201
    /\ out.err = ""
    /\ out.ret = [present |-> TRUE, Index |-> "blog", Type |-> "post",
                  Id |-> "1", Version |-> 1, Created |-> TRUE]

\* C5 as stated: the query string holds exactly the present ones of the nine
\* parameters, so the URL has no "?" part when none of the nine is present.
C5_NineParametersOnly ==
    Built => out.req.url = out.path \o QueryOf(NineKeys)

\* C5, amended: the query string holds exactly the present ones of ten
\* parameters, the nine and `pretty` (present only when Pretty(true) was set,
\* with the value true); the URL has a "?" part iff one of the ten is present.
C5_TenParameters ==
    Built =>
        LET ten == NineKeys \cup {"pretty"}
        IN  /\ DOMAIN out.params = {k \in ten : ParamPresent(k)}
            /\ \A k \in DOMAIN out.params : out.params[k] = ParamValue(k)
            /\ out.req.url = out.path \o QueryOf(ten)
            /\ DOMAIN out.params = {} => out.req.url = out.path

\* Do ran with Pretty(true) and none of the nine parameters set
C5_Witness ==
    /\ Built
    /\ b.pretty
    /\ \A k \in NineKeys : ~ParamPresent(k)
    /\ out.req.url = "///?pretty=true"

\* Do ran with two of the nine parameters set
C5_WitnessTwo ==
    /\ Built
    /\ out.req.url = "///?timeout=a+%2F&version=-7"

\* C6: the URL Do builds has the parameter `version` iff Version was called,
\* whatever the value, and then it is the decimal text of the value:
\* Version(0) gives version=0.
C6_VersionParameter ==
    Built =>
        /\ "version" \in DOMAIN out.params <=> "Version" \in called
        /\ "Version" \in called =>
              /\ out.params["version"] = DecimalText(b.version.val)
              /\ out.req.url = out.path \o "?" \o Encode(out.params)
        /\ DOMAIN out.params = {"version"} =>
              out.req.url = out.path \o "?version="
                            \o (CASE b.version.val = 0 -> "0"
                                  [] b.version.val = -7 -> "-7"
                                  [] b.version.val = 42 -> "42")

\* Do ran after Version(0): the URL ends in ?version=0
C6_Witness ==
    /\ Built
    /\ "Version" \in called
    /\ b.version.val = 0
    /\ out.req.url = "///?version=0"

\* the building environments of Do
Building == {env \in Envs : ~env.expandErr /\ ~env.newRequestErr}

\* C7: a builder on which Refresh(false) was called last builds the request
\* the same builder with Refresh never called builds; `refresh` is in the
\* query, with the value true, only when the last Refresh call passed true.
C7_RefreshFalseIsUnset ==
    LET unset == [b EXCEPT !.refresh = NilRef]
    IN  /\ (b.refresh.present /\ ~b.refresh.val) =>
              \A env \in Building :
                  DoResult(b, env).req = DoResult(unset, env).req
        /\ (Built /\ b.refresh.present /\ ~b.refresh.val) =>
              \A env \in Building : out.req = DoResult(unset, env).req
        /\ Built =>
              /\ "refresh" \in DOMAIN out.params <=>
                    (b.refresh.present /\ b.refresh.val)
              /\ "refresh" \in DOMAIN out.params =>
                    out.params["refresh"] = TrueText

\* Do ran after Refresh(false) and Routing: the query has the routing only
C7_Witness ==
    /\ Built
    /\ "Refresh" \in called
    /\ b.refresh.present /\ ~b.refresh.val
    /\ out.req.url = "///?routing=a+%2F"

\* Do ran after Refresh(true)
C7_WitnessTrue ==
    /\ Built
    /\ b.refresh.present /\ b.refresh.val
    /\ out.req.url = "///?refresh=true"

\* C10: the body of the request is the JSON serialization of the structured
\* body when one (non-nil) was supplied, whether or not a raw string was set
\* too, and the raw string otherwise: the empty string when neither setter
\* was called.
C10_BodyChoice ==
    Built =>
        /\ b.bodyJson # JsonNil => out.req.body = JsonText(b.bodyJson)
        /\ b.bodyJson = JsonNil => out.req.body = b.bodyString
        /\ called \cap {"BodyJson", "BodyString"} = {} => out.req.body = ""

\* Do ran after both BodyString("Hi") and BodyJson({"title": "Hi"})
C10_Witness ==
    /\ Built
    /\ called = {"BodyJson", "BodyString"}
    /\ b.bodyString = "Hi"
    /\ out.req.body = "{\"title\":\"Hi\"}"

\* Do ran after BodyString("Hi") alone
C10_WitnessRaw ==
    /\ Built
    /\ called = {"BodyString"}
    /\ out.req.body = "Hi"

====
